---- MODULE Spec2Model ----
(***************************************************************************)
(* Model of the agent link graph (src/links/types.rs, src/api/links.rs)    *)
(* and of the conversation store (src/conversation/history.rs).            *)
(*                                                                         *)
(* Strings that the code compares, sorts, concatenates or searches are     *)
(* sequences of one-character strings; strings the code only matches       *)
(* against literals ("one_way", "peer", ...) are TLA+ strings.             *)
(***************************************************************************)
EXTENDS Integers, Sequences, FiniteSets, TLC

VARIABLES
    \* ---- link graph: channel_id ----
    link,        \* an AgentLink
    revLink,     \* the AgentLink of the opposite direction, once built
    chanFwd,     \* channel_id() of link
    chanRev,     \* channel_id() of revLink
    otherLink,   \* an AgentLink between any two agents, once built
    chanOther,   \* channel_id() of otherLink
    \* ---- link graph: from_config ----
    cfgDefs,     \* the batch of config LinkDefs
    cfgResult,   \* what from_config returned for cfgDefs
    \* ---- link graph: as_str / from_str ----
    strIn,       \* direction / relationship strings handed to parse()
    parsed,      \* the two from_str results for strIn
    valIn,       \* direction / relationship enum values
    serialized,  \* their as_str strings
    roundTrip,   \* from_str of the as_str strings
    \* ---- conversation store ----
    messages,    \* table conversation_messages
    summaries,   \* table compaction_summaries
    archives,    \* table conversation_archives
    clock,       \* the store's CURRENT_TIMESTAMP
    tasks,       \* spawned tokio tasks that have not run yet, each with the
                 \* arguments of its write call
    nextId,      \* the next id Uuid::new_v4() hands out
    returned,    \* per id: what the write call returned to its caller
    alive,       \* the process is running
    attempts,    \* per id: how many times its INSERT was executed
    warnings,    \* ids for which tracing::warn! was emitted
    lc,          \* the list_channels call in progress, if any
    resp,        \* what the read that completed in this step returned
    \* ---- find_channel_by_name over a channel list ----
    chanList,    \* a list_channels result
    findOut,     \* what the tier cascade returned for it
    \* ---- ApiState: the cells the link handlers load ----
    agent_configs,  \* state.agent_configs: the agent configs installed
    agent_links,    \* state.agent_links: the edge snapshot installed
    installed,      \* every edge snapshot that was ever installed
    reload,         \* the reload in progress, or the last one if rejected
    reloads,        \* how many reloads have begun
    reader,         \* the handler in progress and what it has loaded
    apiResp         \* what the handler that completed in this step returned

linkVars == <<link, revLink, chanFwd, chanRev, otherLink, chanOther>>
cfgVars == <<cfgDefs, cfgResult>>
parseVars == <<strIn, parsed, valIn, serialized, roundTrip>>
tableVars == <<messages, summaries, archives>>
storeVars == <<tableVars, clock, tasks, nextId, returned, alive, attempts, warnings,
               lc, resp>>
findVars == <<chanList, findOut>>
apiVars == <<agent_configs, agent_links, installed, reload, reloads, reader, apiResp>>
vars == <<linkVars, cfgVars, parseVars, storeVars, findVars, apiVars>>

\* "nothing yet": no call has produced this value
Unset == [unset |-> TRUE]

\* Option::None, a NULL column
None == [none |-> TRUE]

\* Option::Some, a non-NULL column
Some(v) == [some |-> v]

Ok(v) == [ok |-> TRUE, val |-> v]
Err(e) == [ok |-> FALSE, err |-> e]

(***************************************************************************)
(* Bounds                                                                  *)
(***************************************************************************)
MaxIdLen == 2
MaxDefs == 3
\* write calls (log_*, save_compaction_summary, archive_transcript) issued
MaxCalls == 2
\* ticks of the store's clock
MaxClock == 1
\* channels in a list handed to the tier cascade
MaxChannels == 3

(***************************************************************************)
(* Character strings                                                       *)
(***************************************************************************)
\* the byte of each character the model uses (UTF-8 = ASCII here)
CharCode ==
    [c \in {":", "-", "1", "2", "A", "B", "a", "b"} |->
        CASE c = "-" -> 45
          [] c = "1" -> 49
          [] c = "2" -> 50
          [] c = ":" -> 58
          [] c = "A" -> 65
          [] c = "B" -> 66
          [] c = "a" -> 97
          [] c = "b" -> 98]

\* char::to_lowercase for the characters the model uses
LowerChar(c) == CASE c = "A" -> "a" [] c = "B" -> "b" [] OTHER -> c

\* str::to_lowercase
to_lowercase(s) == [i \in 1..Len(s) |-> LowerChar(s[i])]

\* str::starts_with
starts_with(s, pre) ==
    /\ Len(pre) <= Len(s)
    /\ SubSeq(s, 1, Len(pre)) = pre

\* str::contains
contains(s, sub) ==
    \E i \in 0..(Len(s) - Len(sub)) : SubSeq(s, i + 1, i + Len(sub)) = sub

Min(a, b) == IF a <= b THEN a ELSE b

\* Vec::reverse
Reverse(s) == [i \in 1..Len(s) |-> s[Len(s) + 1 - i]]

\* all strings over the characters cs of length lo..hi
StringsOver(cs, lo, hi) == UNION {[1..n -> cs] : n \in lo..hi}

\* a <= b for Rust Strings: bytewise lexicographic, a proper prefix is smaller
RECURSIVE StrLe(_, _)
StrLe(a, b) ==
    IF a = <<>> THEN TRUE
    ELSE IF b = <<>> THEN FALSE
    ELSE IF CharCode[Head(a)] < CharCode[Head(b)] THEN TRUE
    ELSE IF CharCode[Head(a)] > CharCode[Head(b)] THEN FALSE
    ELSE StrLe(Tail(a), Tail(b))

(***************************************************************************)
(* links/types.rs                                                          *)
(***************************************************************************)
LinkDirection == {"OneWay", "TwoWay"}
LinkRelationship == {"Peer", "Superior", "Subordinate"}

LinkDirection_as_str(d) ==
    CASE d = "OneWay" -> "one_way"
      [] d = "TwoWay" -> "two_way"

LinkDirection_from_str(s) ==
    CASE s = "one_way" -> Ok("OneWay")
      [] s = "two_way" -> Ok("TwoWay")
      [] OTHER -> Err([invalid |-> "link direction", value |-> s,
                       expected |-> {"one_way", "two_way"}])

\* as_str with the Superior and Subordinate arms exchanged
LinkRelationship_as_str_swapped(r) ==
    CASE r = "Peer" -> "peer"
      [] r = "Superior" -> "subordinate"
      [] r = "Subordinate" -> "superior"

LinkRelationship_as_str(r) ==
    CASE r = "Peer" -> "peer"
      [] r = "Superior" -> "superior"
      [] r = "Subordinate" -> "subordinate"

LinkRelationship_inverse(r) ==
    CASE r = "Peer" -> "Peer"
      [] r = "Superior" -> "Subordinate"
      [] r = "Subordinate" -> "Superior"

\* from_str with the "subordinate" arm yielding Superior
LinkRelationship_from_str_merged(s) ==
    CASE s = "peer" -> Ok("Peer")
      [] s = "superior" -> Ok("Superior")
      [] s = "subordinate" -> Ok("Superior")
      [] OTHER -> Err([invalid |-> "link relationship", value |-> s,
                       expected |-> {"peer", "superior", "subordinate"}])

LinkRelationship_from_str(s) ==
    CASE s = "peer" -> Ok("Peer")
      [] s = "superior" -> Ok("Superior")
      [] s = "subordinate" -> Ok("Subordinate")
      [] OTHER -> Err([invalid |-> "link relationship", value |-> s,
                       expected |-> {"peer", "superior", "subordinate"}])

AgentLink(f, t, d, r) ==
    [from_agent_id |-> f, to_agent_id |-> t, direction |-> d, relationship |-> r]

\* the closure from_config maps over the definitions: one LinkDef to
\* Result<AgentLink>; `?` returns the first parse error with the endpoints
ParseLinkDef(def) ==
    LET direction == LinkDirection_from_str(def.direction)
        relationship == LinkRelationship_from_str(def.relationship)
    IN  IF ~direction.ok
        THEN Err([cause |-> direction.err, from |-> def.from, to |-> def.to])
        ELSE IF ~relationship.ok
        THEN Err([cause |-> relationship.err, from |-> def.from, to |-> def.to])
        ELSE Ok(AgentLink(def.from, def.to, direction.val, relationship.val))

\* collect::<Result<Vec<_>>>(): the Vec of all items, or the first Err
RECURSIVE Collect(_, _)
Collect(defs, acc) ==
    IF defs = <<>> THEN Ok(acc)
    ELSE LET r == ParseLinkDef(Head(defs))
         IN  IF ~r.ok THEN r ELSE Collect(Tail(defs), Append(acc, r.val))

\* a collect that skips the definitions that fail to parse
RECURSIVE CollectValid(_, _)
CollectValid(defs, acc) ==
    IF defs = <<>> THEN Ok(acc)
    ELSE LET r == ParseLinkDef(Head(defs))
         IN  IF ~r.ok THEN CollectValid(Tail(defs), acc)
             ELSE CollectValid(Tail(defs), Append(acc, r.val))

from_config_lossy(defs) == CollectValid(defs, <<>>)

from_config(defs) == Collect(defs, <<>>)

LinkPrefix == <<"l", "i", "n", "k", ":">>

\* channel_id that keeps the edge's own endpoint order
channel_id_unsorted(l) ==
    LinkPrefix \o l.from_agent_id \o <<":">> \o l.to_agent_id

channel_id(l) ==
    LET a == IF StrLe(l.from_agent_id, l.to_agent_id)
             THEN l.from_agent_id ELSE l.to_agent_id
        b == IF StrLe(l.from_agent_id, l.to_agent_id)
             THEN l.to_agent_id ELSE l.from_agent_id
    IN  LinkPrefix \o a \o <<":">> \o b

(***************************************************************************)
(* conversation/history.rs: the store                                      *)
(*                                                                         *)
(* A table is the set of its rows.  No INSERT of the code binds            *)
(* created_at: the store stamps each row with its clock when the INSERT    *)
(* executes, and the clock has a finite resolution (several INSERTs can    *)
(* execute between two ticks).  ORDER BY leaves the relative order of      *)
(* rows with equal keys to the store: a SELECT is the set of the row       *)
(* sequences it may return.                                                *)
(***************************************************************************)
\* serde_json::to_string of the metadata map: the JSON text of an object
JsonToString(map) == [json |-> map]

\* serde_json::from_str of a JSON text
JsonFromStr(text) == Ok(text.json)

\* serde_json::Value::get(key)
JsonGet(obj, key) ==
    IF \E p \in obj : p[1] = key
    THEN Some((CHOOSE p \in obj : p[1] = key)[2])
    ELSE None

\* serde_json::Value::as_str
JsonAsStr(v) == IF "str" \in DOMAIN v THEN Some(v.str) ELSE None

\* the sequences that list every row of S once
Orderings(S) ==
    {o \in [1..Cardinality(S) -> S] :
        \A i, j \in 1..Cardinality(S) : i # j => o[i] # o[j]}

\* the rows with no ORDER BY
OrderByNothing(S) == Orderings(S)

\* ORDER BY created_at DESC
OrderByCreatedAtDesc(S) ==
    {o \in Orderings(S) :
        \A i \in 1..(Len(o) - 1) : o[i].created_at >= o[i + 1].created_at}

\* ORDER BY created_at ASC
OrderByCreatedAtAsc(S) ==
    {o \in Orderings(S) :
        \A i \in 1..(Len(o) - 1) : o[i].created_at <= o[i + 1].created_at}

\* LIMIT that returns one row more than asked for
LimitRowsOffByOne(o, limit) ==
    IF limit < 0 THEN o ELSE SubSeq(o, 1, Min(limit + 1, Len(o)))

\* LIMIT ?: SQLite puts no upper bound on the rows when the value is negative
LimitRows(o, limit) ==
    IF limit < 0 THEN o ELSE SubSeq(o, 1, Min(limit, Len(o)))

\* SELECT ... FROM conversation_messages WHERE channel_id = ?
\* ORDER BY created_at DESC LIMIT ?
SelectRecentMessages(cid, limit) ==
    {LimitRows(o, limit) :
        o \in OrderByCreatedAtDesc({m \in messages : m.channel_id = cid})}

\* row -> ConversationMessage
RowToMessage(row) ==
    [id |-> row.id, channel_id |-> row.channel_id, role |-> row.role,
     sender_name |-> row.sender_name, sender_id |-> row.sender_id,
     content |-> row.content, metadata |-> row.metadata,
     created_at |-> row.created_at]

MapRows(rows, F(_)) == [i \in 1..Len(rows) |-> F(rows[i])]

\* load_recent after the fetch, without messages.reverse()
load_recent_unreversed(rows) == MapRows(rows, RowToMessage)

\* load_recent after the fetch: map the rows, reverse
load_recent_collect(rows) == Reverse(MapRows(rows, RowToMessage))

\* load_channel_transcript after the fetch: map the rows, reverse
load_channel_transcript_collect(rows) == Reverse(MapRows(rows, RowToMessage))

\* the summaries SELECT without its WHERE clause
SelectAllSummaries(cid) == OrderByCreatedAtAsc(summaries)

\* SELECT ... FROM compaction_summaries WHERE channel_id = ?
\* ORDER BY created_at ASC
SelectSummaries(cid) ==
    OrderByCreatedAtAsc({s \in summaries : s.channel_id = cid})

\* row -> CompactionSummary
RowToSummary(row) ==
    [id |-> row.id, channel_id |-> row.channel_id, summary |-> row.summary,
     turns_covered |-> row.turns_covered, created_at |-> row.created_at]

MaxCreatedAt(S) == CHOOSE t \in {m.created_at : m \in S} :
                        \A m \in S : m.created_at <= t

\* SELECT channel_id, MAX(created_at), COUNT(*) ... GROUP BY channel_id
ChannelAggregates ==
    {[channel_id |-> c,
      last_activity |-> MaxCreatedAt({m \in messages : m.channel_id = c}),
      message_count |-> Cardinality({m \in messages : m.channel_id = c})] :
        c \in {m.channel_id : m \in messages}}

\* the aggregate SELECT without its ORDER BY
SelectChannelsUnordered == Orderings(ChannelAggregates)

\* ... ORDER BY last_activity DESC
SelectChannels ==
    {o \in Orderings(ChannelAggregates) :
        \A i \in 1..(Len(o) - 1) : o[i].last_activity >= o[i + 1].last_activity}

\* the metadata SELECT without `channel_id = ?` in its WHERE clause
SelectLatestMetadataAnyChannel(cid) ==
    LET S == {m \in messages : m.metadata # None}
    IN  IF S = {} THEN {None}
        ELSE {Some(m.metadata.some) : m \in {x \in S : x.created_at = MaxCreatedAt(S)}}

\* SELECT metadata FROM conversation_messages WHERE channel_id = ? AND
\* metadata IS NOT NULL ORDER BY created_at DESC LIMIT 1 (fetch_optional)
SelectLatestMetadata(cid) ==
    LET S == {m \in messages : m.channel_id = cid /\ m.metadata # None}
    IN  IF S = {} THEN {None}
        ELSE {Some(m.metadata.some) : m \in {x \in S : x.created_at = MaxCreatedAt(S)}}

ChannelNameKey == "discord_channel_name"

\* resolve_channel_name given what fetch_optional returned: fetched is
\* Err(_), Ok(None) or Ok(Some(metadata text)); `.ok()??` turns the first
\* two into None
resolve_channel_name_from(fetched) ==
    IF ~fetched.ok THEN None
    ELSE IF fetched.val = None THEN None
    ELSE LET metadata == JsonFromStr(fetched.val.some)
         IN  IF ~metadata.ok THEN None
             ELSE LET v == JsonGet(metadata.val, ChannelNameKey)
                  IN  IF v = None THEN None ELSE JsonAsStr(v.some)

ChannelInfo(cid, name, last, count) ==
    [channel_id |-> cid, channel_name |-> name,
     last_activity |-> last, message_count |-> count]

\* channels.iter().find(pred).map(|c| c.channel_id.clone())
FindFirst(channels, Pred(_)) ==
    IF \E i \in 1..Len(channels) : Pred(channels[i])
    THEN Some(channels[CHOOSE i \in 1..Len(channels) :
                    /\ Pred(channels[i])
                    /\ \A j \in 1..(i - 1) : ~Pred(channels[j])].channel_id)
    ELSE None

\* c.channel_name.as_ref().is_some_and(pred)
NameIsSomeAnd(c, Pred(_)) == c.channel_name # None /\ Pred(c.channel_name.some)

\* find_channel_by_name after list_channels returned channels
find_channel_in(channels, name) ==
    LET name_lower == to_lowercase(name)
        Exact(c) == NameIsSomeAnd(c, LAMBDA n : to_lowercase(n) = name_lower)
        Prefix(c) == NameIsSomeAnd(c, LAMBDA n : starts_with(to_lowercase(n), name_lower))
        Contains(c) == NameIsSomeAnd(c, LAMBDA n : contains(to_lowercase(n), name_lower))
        ById(c) == contains(c.channel_id, name_lower)
    IN  IF FindFirst(channels, Exact) # None THEN FindFirst(channels, Exact)
        ELSE IF FindFirst(channels, Prefix) # None THEN FindFirst(channels, Prefix)
        ELSE IF FindFirst(channels, Contains) # None THEN FindFirst(channels, Contains)
        ELSE FindFirst(channels, ById)

(***************************************************************************)
(* Inputs                                                                  *)
(***************************************************************************)
\* agent identifiers, some containing the ':' separator
AgentIdChars == {"a", "b", ":"}
AgentIds == StringsOver(AgentIdChars, 1, MaxIdLen)

\* endpoints and strings of the definitions of a config batch
CfgEndpoints == {<<<<"a">>, <<"b">>>>, <<<<"b">>, <<"a">>>>}
CfgDirectionStrings == {"one_way", "two_way", "both"}
CfgRelationshipStrings == {"peer", "superior", "subordinate", "hierarchical"}

\* strings handed to the two parsers
DirectionStrings ==
    {"one_way", "two_way", "", "oneway", "One_Way", "TWO_WAY", "both", "peer"}
RelationshipStrings ==
    {"peer", "superior", "subordinate", "", "hierarchical", "Peer",
     "SUPERIOR", "inferior", "one_way"}

LinkDef(f, t, d, r) == [from |-> f, to |-> t, direction |-> d, relationship |-> r]

\* channels, display names, metadata maps and queries of the store
StoreChannels == {<<"1">>, <<"2">>}
StoreNames == {<<"a", "b">>}
NameMetadata(n) == {<<ChannelNameKey, [str |-> n]>>}
StoreMetadata == {{}} \cup {NameMetadata(n) : n \in StoreNames}
StoreQueries == {<<"a", "b">>, <<"1">>}
Limits == {-1, 0, 1, 2}
SenderName == <<"a">>
SenderId == <<"1">>
Content == <<"b">>
TurnsCovered == 2

\* channel ids, display names and queries of the tier cascade
FindChannelIds == {<<"1", ":", "a">>, <<"2", ":", "A">>, <<"2", ":", "b">>, <<"1", ":", "B">>}
FindNames == {<<"a", "b">>, <<"a", "b", "2">>, <<"1", "a", "b">>, <<"A", "B">>}
FindQueries ==
    {<<"a", "b">>, <<"A", "B">>, <<"a">>, <<"A">>, <<"b">>, <<"2">>, <<":">>, <<"-">>}

(***************************************************************************)
(* Specification of channel_id                                             *)
(***************************************************************************)
\* link.channel_id()
ChannelId ==
    /\ chanFwd = Unset
    /\ chanFwd' = Some(channel_id(link))
    /\ UNCHANGED <<link, revLink, chanRev, otherLink, chanOther,
                   cfgVars, parseVars, storeVars, findVars, apiVars>>

\* the edge between the same two agents in the other direction, with
\* direction d and relationship r, and its channel_id()
ChannelIdReverse(d, r) ==
    /\ revLink = Unset
    /\ revLink' = AgentLink(link.to_agent_id, link.from_agent_id, d, r)
    /\ chanRev' = Some(channel_id(revLink'))
    /\ UNCHANGED <<link, chanFwd, otherLink, chanOther,
                   cfgVars, parseVars, storeVars, findVars, apiVars>>

InitChannel ==
    /\ link \in {AgentLink(f, t, d, r) :
                    f \in AgentIds, t \in AgentIds,
                    d \in LinkDirection, r \in LinkRelationship}
    /\ revLink = Unset /\ chanFwd = Unset /\ chanRev = Unset
    /\ otherLink = Unset /\ chanOther = Unset
    /\ cfgDefs = <<>> /\ cfgResult = Unset
    /\ strIn = Unset /\ parsed = Unset /\ valIn = Unset
    /\ serialized = Unset /\ roundTrip = Unset
    /\ messages = {} /\ summaries = {} /\ archives = {}
    /\ clock = 0 /\ tasks = {} /\ nextId = 1 /\ returned = <<>> /\ attempts = <<>>
    /\ alive = TRUE
    /\ warnings = {} /\ lc = Unset /\ resp = Unset
    /\ agent_configs = <<>> /\ agent_links = <<>> /\ installed = {<<>>}
    /\ reloads = 0
    /\ reload = Unset /\ reader = Unset /\ apiResp = Unset
    /\ chanList = <<>> /\ findOut = Unset

NextChannel ==
    \/ ChannelId
    \/ \E d \in LinkDirection, r \in LinkRelationship : ChannelIdReverse(d, r)

SpecChannel == InitChannel /\ [][NextChannel]_vars

(***************************************************************************)
(* Specification of channel_id over two edges                              *)
(***************************************************************************)
\* an edge between any two agents, and its channel_id()
ChannelIdOther(f, t) ==
    /\ otherLink = Unset
    /\ otherLink' = AgentLink(f, t, link.direction, link.relationship)
    /\ chanOther' = Some(channel_id(otherLink'))
    /\ UNCHANGED <<link, revLink, chanFwd, chanRev,
                   cfgVars, parseVars, storeVars, findVars, apiVars>>

InitPairs ==
    /\ link \in {AgentLink(f, t, "OneWay", "Peer") : f \in AgentIds, t \in AgentIds}
    /\ revLink = Unset /\ chanFwd = Unset /\ chanRev = Unset
    /\ otherLink = Unset /\ chanOther = Unset
    /\ cfgDefs = <<>> /\ cfgResult = Unset
    /\ strIn = Unset /\ parsed = Unset /\ valIn = Unset
    /\ serialized = Unset /\ roundTrip = Unset
    /\ messages = {} /\ summaries = {} /\ archives = {}
    /\ clock = 0 /\ tasks = {} /\ nextId = 1 /\ returned = <<>> /\ attempts = <<>>
    /\ alive = TRUE
    /\ warnings = {} /\ lc = Unset /\ resp = Unset
    /\ agent_configs = <<>> /\ agent_links = <<>> /\ installed = {<<>>}
    /\ reloads = 0
    /\ reload = Unset /\ reader = Unset /\ apiResp = Unset
    /\ chanList = <<>> /\ findOut = Unset

NextPairs ==
    \/ ChannelId
    \/ \E f \in AgentIds, t \in AgentIds : ChannelIdOther(f, t)

SpecPairs == InitPairs /\ [][NextPairs]_vars

(***************************************************************************)
(* Specification of from_config                                            *)
(***************************************************************************)
\* the config loader appends one definition to the batch
AddLinkDef(def) ==
    /\ cfgResult = Unset
    /\ Len(cfgDefs) < MaxDefs
    /\ cfgDefs' = Append(cfgDefs, def)
    /\ UNCHANGED <<cfgResult, linkVars, parseVars, storeVars, findVars, apiVars>>

FromConfig ==
    /\ cfgResult = Unset
    /\ cfgResult' = from_config(cfgDefs)
    /\ UNCHANGED <<cfgDefs, linkVars, parseVars, storeVars, findVars, apiVars>>

InitConfig ==
    /\ link = Unset /\ revLink = Unset /\ chanFwd = Unset /\ chanRev = Unset
    /\ otherLink = Unset /\ chanOther = Unset
    /\ cfgDefs = <<>> /\ cfgResult = Unset
    /\ strIn = Unset /\ parsed = Unset /\ valIn = Unset
    /\ serialized = Unset /\ roundTrip = Unset
    /\ messages = {} /\ summaries = {} /\ archives = {}
    /\ clock = 0 /\ tasks = {} /\ nextId = 1 /\ returned = <<>> /\ attempts = <<>>
    /\ alive = TRUE
    /\ warnings = {} /\ lc = Unset /\ resp = Unset
    /\ agent_configs = <<>> /\ agent_links = <<>> /\ installed = {<<>>}
    /\ reloads = 0
    /\ reload = Unset /\ reader = Unset /\ apiResp = Unset
    /\ chanList = <<>> /\ findOut = Unset

NextConfig ==
    \/ \E e \in CfgEndpoints, d \in CfgDirectionStrings,
          r \in CfgRelationshipStrings :
            AddLinkDef(LinkDef(e[1], e[2], d, r))
    \/ FromConfig

SpecConfig == InitConfig /\ [][NextConfig]_vars

(***************************************************************************)
(* Specification of as_str / from_str                                      *)
(***************************************************************************)
\* def.direction.parse(), def.relationship.parse()
Parse ==
    /\ parsed = Unset
    /\ parsed' = [direction |-> LinkDirection_from_str(strIn.direction),
                  relationship |-> LinkRelationship_from_str(strIn.relationship)]
    /\ UNCHANGED <<strIn, valIn, serialized, roundTrip,
                   linkVars, cfgVars, storeVars, findVars, apiVars>>

\* link.direction.as_str(), link.relationship.as_str()
Serialize ==
    /\ serialized = Unset
    /\ serialized' = [direction |-> LinkDirection_as_str(valIn.direction),
                      relationship |-> LinkRelationship_as_str(valIn.relationship)]
    /\ UNCHANGED <<strIn, valIn, parsed, roundTrip,
                   linkVars, cfgVars, storeVars, findVars, apiVars>>

\* parse() of the serialized strings
ParseSerialized ==
    /\ serialized # Unset
    /\ roundTrip = Unset
    /\ roundTrip' = [direction |-> LinkDirection_from_str(serialized.direction),
                     relationship |-> LinkRelationship_from_str(serialized.relationship)]
    /\ UNCHANGED <<strIn, valIn, parsed, serialized,
                   linkVars, cfgVars, storeVars, findVars, apiVars>>

InitParse ==
    /\ link = Unset /\ revLink = Unset /\ chanFwd = Unset /\ chanRev = Unset
    /\ otherLink = Unset /\ chanOther = Unset
    /\ cfgDefs = <<>> /\ cfgResult = Unset
    /\ strIn \in [direction : DirectionStrings, relationship : RelationshipStrings]
    /\ valIn \in [direction : LinkDirection, relationship : LinkRelationship]
    /\ parsed = Unset /\ serialized = Unset /\ roundTrip = Unset
    /\ messages = {} /\ summaries = {} /\ archives = {}
    /\ clock = 0 /\ tasks = {} /\ nextId = 1 /\ returned = <<>> /\ attempts = <<>>
    /\ alive = TRUE
    /\ warnings = {} /\ lc = Unset /\ resp = Unset
    /\ agent_configs = <<>> /\ agent_links = <<>> /\ installed = {<<>>}
    /\ reloads = 0
    /\ reload = Unset /\ reader = Unset /\ apiResp = Unset
    /\ chanList = <<>> /\ findOut = Unset

NextParse == Parse \/ Serialize \/ ParseSerialized

SpecParse == InitParse /\ [][NextParse]_vars

(***************************************************************************)
(* Specification of the conversation store                                 *)
(*                                                                         *)
(* A write call builds its row and spawns a task; the task's INSERT runs   *)
(* in a later step and either commits or fails.  A read that completes     *)
(* puts what it returns in resp, and the next step hands it to the caller  *)
(* (Return) before anything else happens, so resp is always a value        *)
(* computed from the current tables.  Reads do not change the store, so    *)
(* one reader at a time is modelled: no read starts while a list_channels  *)
(* call is in progress.                                                    *)
(***************************************************************************)
\* the () every write call returns
Unit == "()"

\* what every write call does: a fresh id, a spawned task, return; call is
\* the call as its caller made it, whose arguments move into the task
Spawn(task, call) ==
    /\ alive
    /\ resp = Unset
    /\ nextId <= MaxCalls
    /\ tasks' = tasks \cup {[table |-> task.table, warning |-> task.warning,
                              row |-> task.row, call |-> call]}
    /\ nextId' = nextId + 1
    /\ returned' = Append(returned, Unit)
    /\ attempts' = Append(attempts, 0)
    /\ UNCHANGED <<tableVars, clock, alive, warnings, lc, resp,
                   linkVars, cfgVars, parseVars, findVars, apiVars>>

LogUserMessage(cid, sender_name, sender_id, content, metadata) ==
    Spawn([table |-> "conversation_messages",
           warning |-> "failed to persist user message",
           row |-> [id |-> nextId, channel_id |-> cid, role |-> "user",
                    sender_name |-> Some(sender_name),
                    sender_id |-> Some(sender_id),
                    content |-> content,
                    metadata |-> Some(JsonToString(metadata))]],
          [op |-> "log_user_message", channel_id |-> cid,
           sender_name |-> sender_name, sender_id |-> sender_id,
           content |-> content, metadata |-> metadata])

\* log_bot_message writing its row with the role and sender columns of a
\* user message
LogBotMessageAsUser(cid, content) ==
    Spawn([table |-> "conversation_messages",
           warning |-> "failed to persist bot message",
           row |-> [id |-> nextId, channel_id |-> cid, role |-> "user",
                    sender_name |-> Some(SenderName), sender_id |-> Some(SenderId),
                    content |-> content, metadata |-> None]],
          [op |-> "log_bot_message", channel_id |-> cid, content |-> content])

LogBotMessage(cid, content) ==
    Spawn([table |-> "conversation_messages",
           warning |-> "failed to persist bot message",
           row |-> [id |-> nextId, channel_id |-> cid, role |-> "assistant",
                    sender_name |-> None, sender_id |-> None,
                    content |-> content, metadata |-> None]],
          [op |-> "log_bot_message", channel_id |-> cid, content |-> content])

SaveCompactionSummary(cid, summary, turns_covered) ==
    Spawn([table |-> "compaction_summaries",
           warning |-> "failed to persist compaction summary",
           row |-> [id |-> nextId, channel_id |-> cid, summary |-> summary,
                    turns_covered |-> turns_covered]],
          [op |-> "save_compaction_summary", channel_id |-> cid,
           summary |-> summary, turns_covered |-> turns_covered])

ArchiveTranscript(cid, transcript_json) ==
    Spawn([table |-> "conversation_archives",
           warning |-> "failed to archive transcript",
           row |-> [id |-> nextId, channel_id |-> cid,
                    transcript |-> transcript_json]],
          [op |-> "archive_transcript", channel_id |-> cid,
           transcript_json |-> transcript_json])

\* the row as the store keeps it: created_at is the clock at the INSERT
Stamped(t) ==
    CASE t.table = "conversation_messages" ->
            [id |-> t.row.id, channel_id |-> t.row.channel_id,
             role |-> t.row.role, sender_name |-> t.row.sender_name,
             sender_id |-> t.row.sender_id, content |-> t.row.content,
             metadata |-> t.row.metadata, created_at |-> clock]
      [] t.table = "compaction_summaries" ->
            [id |-> t.row.id, channel_id |-> t.row.channel_id,
             summary |-> t.row.summary,
             turns_covered |-> t.row.turns_covered, created_at |-> clock]
      [] t.table = "conversation_archives" ->
            [id |-> t.row.id, channel_id |-> t.row.channel_id,
             transcript |-> t.row.transcript, created_at |-> clock]

\* an INSERT that replaces the rows of the same channel
InsertReplacing(table, row) ==
    {r \in table : r.channel_id # row.channel_id} \cup {row}

\* INSERT INTO table ... VALUES row
Insert(table, row) == table \cup {row}

\* a task that stays spawned after a failed INSERT, to run once more
RemainingTasksRetry(t, ok) ==
    IF ok \/ attempts[t.row.id] >= 1 THEN tasks \ {t} ELSE tasks

\* the spawned task ends when its one INSERT returned, Ok or Err
RemainingTasks(t, ok) == tasks \ {t}

\* the body of a spawned task: execute the INSERT once; on Err, warn
ExecuteInsert(t, ok) ==
    /\ alive
    /\ resp = Unset
    /\ t \in tasks
    /\ tasks' = RemainingTasks(t, ok)
    /\ attempts' = [attempts EXCEPT ![t.row.id] = @ + 1]
    /\ IF ok
       THEN /\ messages' = IF t.table = "conversation_messages"
                           THEN Insert(messages, Stamped(t)) ELSE messages
            /\ summaries' = IF t.table = "compaction_summaries"
                            THEN Insert(summaries, Stamped(t)) ELSE summaries
            /\ archives' = IF t.table = "conversation_archives"
                           THEN Insert(archives, Stamped(t)) ELSE archives
            /\ warnings' = warnings
       ELSE /\ UNCHANGED tableVars
            /\ warnings' = warnings \cup {[id |-> t.row.id, message |-> t.warning]}
    /\ UNCHANGED <<clock, nextId, returned, alive, lc, resp, linkVars, cfgVars, parseVars, findVars, apiVars>>

\* the store's clock advances
Tick ==
    /\ resp = Unset
    /\ clock < MaxClock
    /\ clock' = clock + 1
    /\ UNCHANGED <<tableVars, tasks, nextId, returned, alive, attempts, warnings,
                   lc, resp,
                   linkVars, cfgVars, parseVars, findVars, apiVars>>

StoreError == Err("store error")

\* `.map_err(|e| anyhow::anyhow!(e))?`: the read returns the fetch's error
Failed(op, fetched) == [op |-> op, storeFailed |-> TRUE, ret |-> fetched]

ReadOnly ==
    UNCHANGED <<tableVars, clock, tasks, nextId, returned, alive, attempts, warnings,
                linkVars, cfgVars, parseVars, findVars, apiVars>>

LoadRecent(cid, limit, ok) ==
    /\ alive
    /\ resp = Unset
    /\ lc = Unset
    /\ \E fetched \in (IF ok THEN {Ok(rows) : rows \in SelectRecentMessages(cid, limit)}
                       ELSE {StoreError}) :
          resp' = IF fetched.ok
                  THEN [op |-> "load_recent", channel_id |-> cid, limit |-> limit,
                        storeFailed |-> FALSE,
                        ret |-> Ok(load_recent_collect(fetched.val))]
                  ELSE Failed("load_recent", fetched)
    /\ UNCHANGED lc
    /\ ReadOnly

LoadChannelTranscript(cid, limit, ok) ==
    /\ alive
    /\ resp = Unset
    /\ lc = Unset
    /\ \E fetched \in (IF ok THEN {Ok(rows) : rows \in SelectRecentMessages(cid, limit)}
                       ELSE {StoreError}) :
          resp' = IF fetched.ok
                  THEN [op |-> "load_channel_transcript", channel_id |-> cid,
                        limit |-> limit, storeFailed |-> FALSE,
                        ret |-> Ok(load_channel_transcript_collect(fetched.val))]
                  ELSE Failed("load_channel_transcript", fetched)
    /\ UNCHANGED lc
    /\ ReadOnly

LoadCompactionSummaries(cid, ok) ==
    /\ alive
    /\ resp = Unset
    /\ lc = Unset
    /\ \E fetched \in (IF ok THEN {Ok(rows) : rows \in SelectSummaries(cid)}
                       ELSE {StoreError}) :
          resp' = IF fetched.ok
                  THEN [op |-> "load_compaction_summaries", channel_id |-> cid,
                        storeFailed |-> FALSE,
                        ret |-> Ok(MapRows(fetched.val, RowToSummary))]
                  ELSE Failed("load_compaction_summaries", fetched)
    /\ UNCHANGED lc
    /\ ReadOnly

\* what fetch_optional of the metadata SELECT may return
FetchLatestMetadata(cid, ok) ==
    IF ok THEN {Ok(x) : x \in SelectLatestMetadata(cid)} ELSE {StoreError}

ResolveChannelName(cid, ok) ==
    /\ alive
    /\ resp = Unset
    /\ lc = Unset
    /\ \E fetched \in FetchLatestMetadata(cid, ok) :
          resp' = [op |-> "resolve_channel_name", channel_id |-> cid,
                   storeFailed |-> ~ok,
                   ret |-> resolve_channel_name_from(fetched)]
    /\ UNCHANGED lc
    /\ ReadOnly

\* what the caller of the list_channels call c gets once the loop is over:
\* Ok(channels) from list_channels itself, the cascade's result from
\* find_channel_by_name; scanned is the number of message rows the store
\* held when the aggregate SELECT ran
Returned(c, channels, failed, scanned) ==
    IF c.op = "list_channels"
    THEN [op |-> c.op, storeFailed |-> failed, scanned |-> scanned,
          ret |-> Ok(channels)]
    ELSE [op |-> c.op, name |-> c.name, storeFailed |-> failed, scanned |-> scanned,
          ret |-> Ok(find_channel_in(channels, c.name))]

\* list_channels up to the return of its aggregate SELECT
ListChannelsScan(c, ok) ==
    /\ alive
    /\ resp = Unset
    /\ lc = Unset
    /\ IF ~ok
       THEN /\ resp' = Failed(c.op, StoreError)
            /\ UNCHANGED lc
       ELSE \E rows \in SelectChannels :
              IF rows = <<>>
              THEN /\ resp' = Returned(c, <<>>, FALSE, Cardinality(messages))
                   /\ UNCHANGED lc
              ELSE /\ lc' = [call |-> c, rows |-> rows, channels |-> <<>>,
                             storeFailed |-> FALSE,
                             scanned |-> Cardinality(messages)]
                   /\ resp' = Unset
    /\ ReadOnly

ListChannels(ok) == ListChannelsScan([op |-> "list_channels"], ok)

FindChannelByName(name, ok) ==
    ListChannelsScan([op |-> "find_channel_by_name", name |-> name], ok)

\* one iteration of list_channels' loop: resolve_channel_name for the next
\* row, push the ChannelInfo; after the last row the call returns
ListChannelsLookup(ok) ==
    /\ alive
    /\ resp = Unset
    /\ lc # Unset
    /\ LET row == lc.rows[Len(lc.channels) + 1]
       IN  \E fetched \in FetchLatestMetadata(row.channel_id, ok) :
             LET channel_name == resolve_channel_name_from(fetched)
                 channels == Append(lc.channels,
                                ChannelInfo(row.channel_id, channel_name,
                                            row.last_activity, row.message_count))
                 failed == lc.storeFailed \/ ~ok
             IN  IF Len(channels) = Len(lc.rows)
                 THEN /\ lc' = Unset
                      /\ resp' = Returned(lc.call, channels, failed, lc.scanned)
                 ELSE /\ lc' = [lc EXCEPT !.channels = channels,
                                          !.storeFailed = failed]
                      /\ resp' = Unset
    /\ ReadOnly

\* the caller of the read that just completed takes what it returned
Return ==
    /\ alive
    /\ resp # Unset
    /\ resp' = Unset
    /\ UNCHANGED lc
    /\ ReadOnly

InitStore ==
    /\ link = Unset /\ revLink = Unset /\ chanFwd = Unset /\ chanRev = Unset
    /\ otherLink = Unset /\ chanOther = Unset
    /\ cfgDefs = <<>> /\ cfgResult = Unset
    /\ strIn = Unset /\ parsed = Unset /\ valIn = Unset
    /\ serialized = Unset /\ roundTrip = Unset
    /\ messages = {} /\ summaries = {} /\ archives = {}
    /\ clock = 0 /\ tasks = {} /\ nextId = 1 /\ returned = <<>> /\ attempts = <<>>
    /\ alive = TRUE
    /\ warnings = {} /\ lc = Unset /\ resp = Unset
    /\ agent_configs = <<>> /\ agent_links = <<>> /\ installed = {<<>>}
    /\ reloads = 0
    /\ reload = Unset /\ reader = Unset /\ apiResp = Unset
    /\ chanList = <<>> /\ findOut = Unset

\* the workload of messages: both message writes and every read
NextMessages ==
    \/ \E cid \in StoreChannels, metadata \in StoreMetadata :
          LogUserMessage(cid, SenderName, SenderId, Content, metadata)
    \/ \E cid \in StoreChannels : LogBotMessage(cid, Content)
    \/ \E t \in tasks, ok \in BOOLEAN : ExecuteInsert(t, ok)
    \/ Tick
    \/ \E cid \in StoreChannels, limit \in Limits, ok \in BOOLEAN :
          LoadRecent(cid, limit, ok)
    \/ \E cid \in StoreChannels, limit \in Limits, ok \in BOOLEAN :
          LoadChannelTranscript(cid, limit, ok)
    \/ \E cid \in StoreChannels, ok \in BOOLEAN : LoadCompactionSummaries(cid, ok)
    \/ \E cid \in StoreChannels, ok \in BOOLEAN : ResolveChannelName(cid, ok)
    \/ \E ok \in BOOLEAN : ListChannels(ok)
    \/ \E name \in StoreQueries, ok \in BOOLEAN : FindChannelByName(name, ok)
    \/ \E ok \in BOOLEAN : ListChannelsLookup(ok)
    \/ Return

SpecMessages == InitStore /\ [][NextMessages]_vars

\* the workload of compaction: summaries and archives written, summaries read
NextCompaction ==
    \/ \E cid \in StoreChannels : SaveCompactionSummary(cid, Content, TurnsCovered)
    \/ \E cid \in StoreChannels : ArchiveTranscript(cid, Content)
    \/ \E t \in tasks, ok \in BOOLEAN : ExecuteInsert(t, ok)
    \/ Tick
    \/ \E cid \in StoreChannels, ok \in BOOLEAN : LoadCompactionSummaries(cid, ok)
    \/ Return

SpecCompaction == InitStore /\ [][NextCompaction]_vars

\* the write path: the four write calls and their spawned tasks
NextWrites ==
    \/ \E cid \in StoreChannels, metadata \in StoreMetadata :
          LogUserMessage(cid, SenderName, SenderId, Content, metadata)
    \/ \E cid \in StoreChannels : LogBotMessage(cid, Content)
    \/ \E cid \in StoreChannels : SaveCompactionSummary(cid, Content, TurnsCovered)
    \/ \E cid \in StoreChannels : ArchiveTranscript(cid, Content)
    \/ \E t \in tasks, ok \in BOOLEAN : ExecuteInsert(t, ok)
    \/ Tick

SpecWrites == InitStore /\ [][NextWrites]_vars

\* the process terminates: its spawned tasks are dropped where they are
Crash ==
    /\ alive
    /\ alive' = FALSE
    /\ tasks' = {}
    /\ lc' = Unset
    /\ resp' = Unset
    /\ UNCHANGED <<tableVars, clock, nextId, returned, attempts, warnings,
                   linkVars, cfgVars, parseVars, findVars, apiVars>>

\* the message writes of a process that may terminate at any point
NextLive ==
    \/ \E cid \in StoreChannels, metadata \in StoreMetadata :
          LogUserMessage(cid, SenderName, SenderId, Content, metadata)
    \/ \E cid \in StoreChannels : LogBotMessage(cid, Content)
    \/ \E t \in tasks, ok \in BOOLEAN : ExecuteInsert(t, ok)
    \/ Tick
    \/ Crash

\* the runtime polls every spawned task: while the process runs, the task
\* of each write call gets to execute its INSERT
SpecLive ==
    /\ InitStore
    /\ [][NextLive]_vars
    /\ \A id \in 1..MaxCalls :
          WF_vars(\E t \in tasks, ok \in BOOLEAN : t.row.id = id /\ ExecuteInsert(t, ok))

\* the channel the reads of the whole-store workload are made on
ReadChannel == <<"1">>

\* the whole store: the four write calls on either channel, their tasks, and
\* every read, each over all the rows of one channel and with no statement
\* failing
NextStore ==
    \/ \E cid \in StoreChannels, metadata \in StoreMetadata :
          LogUserMessage(cid, SenderName, SenderId, Content, metadata)
    \/ \E cid \in StoreChannels : LogBotMessage(cid, Content)
    \/ \E cid \in StoreChannels : SaveCompactionSummary(cid, Content, TurnsCovered)
    \/ \E cid \in StoreChannels : ArchiveTranscript(cid, Content)
    \/ \E t \in tasks, ok \in BOOLEAN : ExecuteInsert(t, ok)
    \/ Tick
    \/ LoadRecent(ReadChannel, -1, TRUE)
    \/ LoadChannelTranscript(ReadChannel, -1, TRUE)
    \/ LoadCompactionSummaries(ReadChannel, TRUE)
    \/ ResolveChannelName(ReadChannel, TRUE)
    \/ ListChannels(TRUE)
    \/ FindChannelByName(ReadChannel, TRUE)
    \/ ListChannelsLookup(TRUE)
    \/ Return

SpecStore == InitStore /\ [][NextStore]_vars

(***************************************************************************)
(* Specification of the tier cascade over a channel list                   *)
(***************************************************************************)
\* the lists list_channels can return: distinct channel ids, most recently
\* active first, a display name or none for each
ChannelLists ==
    UNION {{[i \in 1..n |-> ChannelInfo(ids[i], names[i], n - i, 1)] :
              ids \in {f \in [1..n -> FindChannelIds] :
                          \A i, j \in 1..n : i # j => f[i] # f[j]},
              names \in [1..n -> {None} \cup {Some(x) : x \in FindNames}]} :
           n \in 0..MaxChannels}

FindInList(name) ==
    /\ findOut = Unset
    /\ findOut' = [name |-> name, ret |-> find_channel_in(chanList, name)]
    /\ UNCHANGED <<chanList, linkVars, cfgVars, parseVars, storeVars, apiVars>>

InitFind ==
    /\ link = Unset /\ revLink = Unset /\ chanFwd = Unset /\ chanRev = Unset
    /\ otherLink = Unset /\ chanOther = Unset
    /\ cfgDefs = <<>> /\ cfgResult = Unset
    /\ strIn = Unset /\ parsed = Unset /\ valIn = Unset
    /\ serialized = Unset /\ roundTrip = Unset
    /\ messages = {} /\ summaries = {} /\ archives = {}
    /\ clock = 0 /\ tasks = {} /\ nextId = 1 /\ returned = <<>> /\ attempts = <<>>
    /\ alive = TRUE
    /\ warnings = {} /\ lc = Unset /\ resp = Unset
    /\ agent_configs = <<>> /\ agent_links = <<>> /\ installed = {<<>>}
    /\ reloads = 0
    /\ reload = Unset /\ reader = Unset /\ apiResp = Unset
    /\ chanList \in ChannelLists
    /\ findOut = Unset

NextFind == \E name \in FindQueries : FindInList(name)

SpecFind == InitFind /\ [][NextFind]_vars

(***************************************************************************)
(* Specification of the link handlers of the API                           *)
(*                                                                         *)
(* ApiState keeps the agent configs and the edge snapshot in two cells;    *)
(* a handler's load() takes the value a cell holds at that moment and      *)
(* keeps it until the handler returns.  A reload validates the new link    *)
(* definitions with from_config and then stores a new value in each cell,  *)
(* one store at a time; handlers run between any two steps of a reload.    *)
(* A handler that completes puts its response in apiResp and the next      *)
(* step hands it to the caller.                                            *)
(***************************************************************************)
\* reloads of the configuration
MaxReloads == 2

AgentConfig(id) == [id |-> id]

\* the configurations the process is started or reloaded with: the agents
\* and the link definitions; the second one spells the relationship of its
\* second edge "hierarchical"
ExampleAgents == <<AgentConfig(<<"a">>), AgentConfig(<<"b">>), AgentConfig(<<"c">>)>>
ExampleDefs ==
    <<LinkDef(<<"a">>, <<"b">>, "two_way", "peer"),
      LinkDef(<<"b">>, <<"c">>, "one_way", "superior")>>
HierarchicalDefs ==
    <<LinkDef(<<"a">>, <<"b">>, "two_way", "peer"),
      LinkDef(<<"b">>, <<"c">>, "one_way", "hierarchical")>>
Generations ==
    {[agents |-> ExampleAgents, defs |-> ExampleDefs],
     [agents |-> ExampleAgents, defs |-> HierarchicalDefs],
     [agents |-> <<AgentConfig(<<"a">>), AgentConfig(<<"b">>)>>,
      defs |-> <<LinkDef(<<"b">>, <<"a">>, "one_way", "subordinate")>>],
     [agents |-> <<AgentConfig(<<"c">>)>>, defs |-> <<>>]}
ApiAgentIds == {<<"a">>, <<"b">>, <<"c">>}

\* #[serde(rename_all = "snake_case")] of the two enums
SerdeSnakeCase(v) ==
    CASE v = "OneWay" -> "one_way"
      [] v = "TwoWay" -> "two_way"
      [] v = "Peer" -> "peer"
      [] v = "Superior" -> "superior"
      [] v = "Subordinate" -> "subordinate"

\* #[derive(Serialize)] of AgentLink
SerializeAgentLink(l) ==
    [from_agent_id |-> l.from_agent_id, to_agent_id |-> l.to_agent_id,
     direction |-> SerdeSnakeCase(l.direction),
     relationship |-> SerdeSnakeCase(l.relationship)]

\* json!({ "links": ... })
LinksJson(links) == [links |-> [i \in 1..Len(links) |-> SerializeAgentLink(links[i])]]

\* crate::links::links_for_agent: every edge where the agent is either
\* endpoint
links_for_agent(links, agent_id) ==
    LET Touches(l) == l.from_agent_id = agent_id \/ l.to_agent_id = agent_id
    IN  SelectSeq(links, Touches)

TopologyAgentUnnamed(config) == [id |-> config.id, name |-> <<>>]

TopologyAgent(config) == [id |-> config.id, name |-> config.id]

TopologyLink(l) ==
    [from |-> l.from_agent_id, to |-> l.to_agent_id,
     direction |-> LinkDirection_as_str(l.direction),
     relationship |-> LinkRelationship_as_str(l.relationship)]

\* topology's links without the last edge of the snapshot
topology_links_truncated(all_links) ==
    [i \in 1..(Len(all_links) - 1) |-> TopologyLink(all_links[i])]

\* all_links.iter().map(..).collect()
topology_links(all_links) == [i \in 1..Len(all_links) |-> TopologyLink(all_links[i])]

\* agent_configs.iter().map(..).collect()
topology_agents(configs) == [i \in 1..Len(configs) |-> TopologyAgent(configs[i])]

ApiUnchanged == UNCHANGED <<linkVars, cfgVars, parseVars, storeVars, findVars>>

\* a reload begins: the link definitions are validated; if they are valid
\* the first of the two cells is stored, else nothing is installed
Reload(g, first) ==
    /\ apiResp = Unset
    /\ reload = Unset \/ "rejected" \in DOMAIN reload
    /\ reloads < MaxReloads
    /\ reloads' = reloads + 1
    /\ LET r == from_config(g.defs)
       IN  IF ~r.ok
           THEN /\ reload' = [rejected |-> r.err, defs |-> g.defs]
                /\ UNCHANGED <<agent_configs, agent_links, installed>>
           ELSE /\ reload' = [agent_configs |-> g.agents, agent_links |-> r.val,
                              stored |-> first]
                /\ IF first = "agent_configs"
                   THEN /\ agent_configs' = g.agents
                        /\ UNCHANGED <<agent_links, installed>>
                   ELSE /\ agent_links' = r.val
                        /\ installed' = installed \cup {r.val}
                        /\ UNCHANGED agent_configs
    /\ UNCHANGED <<reader, apiResp>>
    /\ ApiUnchanged

\* the reload stores the other cell and is over
ReloadFinish ==
    /\ apiResp = Unset
    /\ reload # Unset /\ "stored" \in DOMAIN reload
    /\ IF reload.stored = "agent_configs"
       THEN /\ agent_links' = reload.agent_links
            /\ installed' = installed \cup {reload.agent_links}
            /\ UNCHANGED agent_configs
       ELSE /\ agent_configs' = reload.agent_configs
            /\ UNCHANGED <<agent_links, installed>>
    /\ reload' = Unset
    /\ UNCHANGED <<reloads, reader, apiResp>>
    /\ ApiUnchanged

\* list_links and agent_links up to `state.agent_links.load()`
LoadLinks(call) ==
    /\ apiResp = Unset
    /\ reader = Unset
    /\ reader' = [call |-> call, links |-> agent_links]
    /\ UNCHANGED <<agent_configs, agent_links, installed, reload, reloads, apiResp>>
    /\ ApiUnchanged

ListLinksLoad == LoadLinks([op |-> "list_links"])

AgentLinksLoad(agent_id) == LoadLinks([op |-> "agent_links", agent_id |-> agent_id])

\* list_links and agent_links from the loaded snapshot to the response
LinksRespond ==
    /\ apiResp = Unset
    /\ reader # Unset /\ reader.call.op \in {"list_links", "agent_links"}
    /\ apiResp' = [call |-> reader.call,
                   ret |-> IF reader.call.op = "list_links"
                           THEN LinksJson(reader.links)
                           ELSE LinksJson(links_for_agent(reader.links,
                                                          reader.call.agent_id))]
    /\ reader' = Unset
    /\ UNCHANGED <<agent_configs, agent_links, installed, reload, reloads>>
    /\ ApiUnchanged

\* topology up to the collect() of agents
TopologyLoadConfigs ==
    /\ apiResp = Unset
    /\ reader = Unset
    /\ reader' = [call |-> [op |-> "topology"], agent_configs |-> agent_configs,
                  agents |-> topology_agents(agent_configs)]
    /\ UNCHANGED <<agent_configs, agent_links, installed, reload, reloads, apiResp>>
    /\ ApiUnchanged

\* topology from `state.agent_links.load()` to the response; the response
\* remembers the two values the handler loaded
TopologyLoadLinks ==
    /\ apiResp = Unset
    /\ reader # Unset /\ reader.call.op = "topology"
    /\ apiResp' = [call |-> reader.call,
                   agent_configs |-> reader.agent_configs,
                   agent_links |-> agent_links,
                   ret |-> [agents |-> reader.agents,
                            links |-> topology_links(agent_links)]]
    /\ reader' = Unset
    /\ UNCHANGED <<agent_configs, agent_links, installed, reload, reloads>>
    /\ ApiUnchanged

\* the caller of the handler that just completed takes the response
ApiReturn ==
    /\ apiResp # Unset
    /\ apiResp' = Unset
    /\ UNCHANGED <<agent_configs, agent_links, installed, reload, reloads, reader>>
    /\ ApiUnchanged

InitApi ==
    /\ link = Unset /\ revLink = Unset /\ chanFwd = Unset /\ chanRev = Unset
    /\ otherLink = Unset /\ chanOther = Unset
    /\ cfgDefs = <<>> /\ cfgResult = Unset
    /\ strIn = Unset /\ parsed = Unset /\ valIn = Unset
    /\ serialized = Unset /\ roundTrip = Unset
    /\ messages = {} /\ summaries = {} /\ archives = {}
    /\ clock = 0 /\ tasks = {} /\ nextId = 1 /\ returned = <<>> /\ attempts = <<>>
    /\ alive = TRUE
    /\ warnings = {} /\ lc = Unset /\ resp = Unset
    /\ chanList = <<>> /\ findOut = Unset
    /\ \E g \in Generations :
          /\ from_config(g.defs).ok
          /\ agent_configs = g.agents
          /\ agent_links = from_config(g.defs).val
    /\ installed = {agent_links}
    /\ reloads = 0
    /\ reload = Unset /\ reader = Unset /\ apiResp = Unset

NextApi ==
    \/ \E g \in Generations, first \in {"agent_configs", "agent_links"} : Reload(g, first)
    \/ ReloadFinish
    \/ ListLinksLoad
    \/ \E agent_id \in ApiAgentIds : AgentLinksLoad(agent_id)
    \/ LinksRespond
    \/ TopologyLoadConfigs
    \/ TopologyLoadLinks
    \/ ApiReturn

SpecApi == InitApi /\ [][NextApi]_vars

(***************************************************************************)
(* Specification of topology over a configuration that stays as it is      *)
(***************************************************************************)
\* the agent lists and link definitions a process is configured with
TopologyAgentLists ==
    {ExampleAgents,
     <<AgentConfig(<<"c">>), AgentConfig(<<"a">>), AgentConfig(<<"b">>)>>,
     <<AgentConfig(<<"a">>), AgentConfig(<<"b">>)>>,
     <<AgentConfig(<<"b">>), AgentConfig(<<"a">>)>>,
     <<AgentConfig(<<"c">>)>>,
     <<>>}
TopologyDefs ==
    {g.defs : g \in Generations}
        \cup {<<LinkDef(e[1], e[2], d, r)>> :
                 e \in CfgEndpoints, d \in CfgDirectionStrings,
                 r \in CfgRelationshipStrings}

InitTopology ==
    /\ link = Unset /\ revLink = Unset /\ chanFwd = Unset /\ chanRev = Unset
    /\ otherLink = Unset /\ chanOther = Unset
    /\ cfgDefs = <<>> /\ cfgResult = Unset
    /\ strIn = Unset /\ parsed = Unset /\ valIn = Unset
    /\ serialized = Unset /\ roundTrip = Unset
    /\ messages = {} /\ summaries = {} /\ archives = {}
    /\ clock = 0 /\ tasks = {} /\ nextId = 1 /\ returned = <<>> /\ attempts = <<>>
    /\ alive = TRUE
    /\ warnings = {} /\ lc = Unset /\ resp = Unset
    /\ chanList = <<>> /\ findOut = Unset
    /\ agent_configs \in TopologyAgentLists
    /\ \E defs \in TopologyDefs :
          /\ from_config(defs).ok
          /\ agent_links = from_config(defs).val
    /\ installed = {agent_links}
    /\ reloads = 0
    /\ reload = Unset /\ reader = Unset /\ apiResp = Unset

NextTopology ==
    \/ TopologyLoadConfigs
    \/ TopologyLoadLinks
    \/ ApiReturn

SpecTopology == InitTopology /\ [][NextTopology]_vars

(***************************************************************************)
(* Claims                                                                  *)
(***************************************************************************)

\* C1: the edge A->B and the edge B->A get the same channel_id, whatever
\* the direction and relationship of either edge.
C1_ChannelIdSymmetric ==
    (chanFwd # Unset /\ chanRev # Unset) => chanFwd = chanRev

\* an edge whose endpoints are out of order, and its reverse with another
\* direction and relationship, both with their channel ids computed
C1_Witness ==
    /\ chanFwd # Unset /\ chanRev # Unset
    /\ link.from_agent_id # link.to_agent_id
    /\ ~StrLe(link.from_agent_id, link.to_agent_id)
    /\ revLink.direction # link.direction
    /\ revLink.relationship # link.relationship

ValidDirectionStrings == {"one_way", "two_way"}
ValidRelationshipStrings == {"peer", "superior", "subordinate"}
ValidLinkDef(def) ==
    /\ def.direction \in ValidDirectionStrings
    /\ def.relationship \in ValidRelationshipStrings

\* C2: from_config is all-or-nothing: one invalid direction or relationship
\* string makes the whole call an error carrying no edges; a batch of valid
\* definitions yields one edge per definition, in order, same from/to.
C2_FromConfigAllOrNothing ==
    cfgResult # Unset =>
        IF \E i \in 1..Len(cfgDefs) : ~ValidLinkDef(cfgDefs[i])
        THEN /\ ~cfgResult.ok
             /\ "val" \notin DOMAIN cfgResult
        ELSE /\ cfgResult.ok
             /\ Len(cfgResult.val) = Len(cfgDefs)
             /\ \A i \in 1..Len(cfgDefs) :
                    /\ cfgResult.val[i].from_agent_id = cfgDefs[i].from
                    /\ cfgResult.val[i].to_agent_id = cfgDefs[i].to

\* a batch whose middle definition is invalid, between two valid ones
C2_Witness ==
    /\ cfgResult # Unset
    /\ Len(cfgDefs) = 3
    /\ ValidLinkDef(cfgDefs[1])
    /\ ~ValidLinkDef(cfgDefs[2])
    /\ ValidLinkDef(cfgDefs[3])

C4_RoundTrip ==
    /\ roundTrip # Unset =>
          /\ roundTrip.direction = Ok(valIn.direction)
          /\ roundTrip.relationship = Ok(valIn.relationship)
    /\ parsed # Unset =>
          /\ strIn.direction \notin ValidDirectionStrings =>
                ~parsed.direction.ok
          /\ strIn.relationship \notin ValidRelationshipStrings =>
                ~parsed.relationship.ok
    /\ serialized # Unset =>
          /\ serialized.direction \in ValidDirectionStrings
          /\ serialized.relationship \in ValidRelationshipStrings

\* Subordinate round-tripped, and a near-miss of each enum rejected
C4_Witness ==
    /\ roundTrip # Unset
    /\ valIn.relationship = "Subordinate"
    /\ valIn.direction = "TwoWay"
    /\ parsed # Unset
    /\ strIn.direction = "One_Way"
    /\ strIn.relationship = "hierarchical"

\* the read that just completed is a successful load_recent or
\* load_channel_transcript
LoadReturned ==
    /\ resp # Unset
    /\ resp.op \in {"load_recent", "load_channel_transcript"}
    /\ resp.ret.ok

\* C5 (as stated): the list load_recent / load_channel_transcript returns
\* is in strictly ascending created_at order.
C5_StrictlyAscending ==
    LoadReturned =>
        \A i \in 1..(Len(resp.ret.val) - 1) :
            resp.ret.val[i].created_at < resp.ret.val[i + 1].created_at

\* C5 (amended): the list is in non-decreasing created_at order; messages
\* inserted within one tick of the store's clock have equal created_at.
C5_Ascending ==
    LoadReturned =>
        \A i \in 1..(Len(resp.ret.val) - 1) :
            resp.ret.val[i].created_at <= resp.ret.val[i + 1].created_at

\* two messages of one channel with the same created_at are returned
C5_Witness ==
    /\ LoadReturned
    /\ Len(resp.ret.val) = 2
    /\ resp.ret.val[1].created_at = resp.ret.val[2].created_at

\* the returned list msgs holds count messages, all of them rows of the
\* channel, none twice, and no omitted row of the channel is newer than a
\* returned one
MostRecentOf(msgs, cid, count) ==
    LET rows == {m \in messages : m.channel_id = cid}
        got == {msgs[i] : i \in 1..Len(msgs)}
    IN  /\ Len(msgs) = count
        /\ Cardinality(got) = Len(msgs)
        /\ got \subseteq rows
        /\ \A m \in rows \ got, r \in got : m.created_at <= r.created_at

ChannelCount(cid) == Cardinality({m \in messages : m.channel_id = cid})

\* C6 (as stated): for every integer limit the list has at most limit
\* messages, all of the requested channel, and they are the min(limit, n)
\* most recently created ones.
C6_AtMostLimitMostRecent ==
    LoadReturned =>
        /\ Len(resp.ret.val) <= resp.limit
        /\ MostRecentOf(resp.ret.val, resp.channel_id,
                        Min(resp.limit, ChannelCount(resp.channel_id)))

\* C6 (amended): for limit >= 0 as stated; for limit < 0 the list holds
\* all n messages of the channel.
C6_LimitMostRecent ==
    LoadReturned =>
        IF resp.limit >= 0
        THEN /\ Len(resp.ret.val) <= resp.limit
             /\ MostRecentOf(resp.ret.val, resp.channel_id,
                             Min(resp.limit, ChannelCount(resp.channel_id)))
        ELSE MostRecentOf(resp.ret.val, resp.channel_id,
                          ChannelCount(resp.channel_id))

\* limit 1 on a channel with an older and a newer message, and a message
\* in the other channel
C6_Witness ==
    /\ LoadReturned
    /\ resp.limit = 1
    /\ Len(resp.ret.val) = 1
    /\ \E m \in messages :
          /\ m.channel_id = resp.channel_id
          /\ m.created_at < resp.ret.val[1].created_at

SummariesReturned ==
    /\ resp # Unset
    /\ resp.op = "load_compaction_summaries"
    /\ resp.ret.ok

\* every summary of the channel once, none of another channel, in
\* non-decreasing created_at order
AllSummariesAscending(list, cid) ==
    /\ {list[i] : i \in 1..Len(list)} = {s \in summaries : s.channel_id = cid}
    /\ Len(list) = Cardinality({s \in summaries : s.channel_id = cid})
    /\ \A i \in 1..(Len(list) - 1) : list[i].created_at <= list[i + 1].created_at

\* C7 (as stated): load_compaction_summaries returns the channel's
\* summaries, all and only, in ascending created_at order, which is the
\* order of the save_compaction_summary calls (ids are handed out in call
\* order).
C7_SummariesInCallOrder ==
    SummariesReturned =>
        /\ AllSummariesAscending(resp.ret.val, resp.channel_id)
        /\ \A i \in 1..(Len(resp.ret.val) - 1) :
              resp.ret.val[i].id < resp.ret.val[i + 1].id

\* C7 (amended): load_compaction_summaries returns the channel's
\* summaries, all and only, in non-decreasing created_at order, the time
\* at which each INSERT executed.
C7_SummariesAscending ==
    SummariesReturned => AllSummariesAscending(resp.ret.val, resp.channel_id)

\* two summaries of the channel, inserted at different times
C7_Witness ==
    /\ SummariesReturned
    /\ Len(resp.ret.val) = 2
    /\ resp.ret.val[1].created_at < resp.ret.val[2].created_at

\* C8: a failed background INSERT changes no table, leaves what the write
\* call returned to its caller as it was, the same () a call whose INSERT
\* commits returns, and is not run again: its task is gone after the one
\* attempt.
C8_WriteFailureDropped ==
    [][\A t \in tasks :
          [id |-> t.row.id, message |-> t.warning] \in warnings' \ warnings =>
              /\ tableVars' = tableVars
              /\ returned' = returned
              /\ \A id \in 1..Len(returned) : returned[id] = Unit
              /\ resp' = Unset
              /\ attempts'[t.row.id] = 1
              /\ \A u \in tasks' : u.row.id # t.row.id]_vars

\* an INSERT into conversation_messages and one into another table have
\* failed, each after one attempt, and nothing is stored
C8_Witness ==
    /\ \E w \in warnings : w.message \in {"failed to persist user message",
                                          "failed to persist bot message"}
    /\ \E w \in warnings : w.message \in {"failed to persist compaction summary",
                                          "failed to archive transcript"}
    /\ \A w \in warnings : attempts[w.id] = 1 /\ returned[w.id] = Unit
    /\ tasks = {}
    /\ messages = {} /\ summaries = {} /\ archives = {}

\* C9 (as stated): a read during which a statement failed returns an error
\* to its caller.
C9_ReadFailureSurfaced ==
    (resp # Unset /\ resp.storeFailed) =>
        ("ok" \in DOMAIN resp.ret /\ ~resp.ret.ok)

\* the channels of the list that match name in each tier, letter case
\* ignored in every tier
Tier(n, name) ==
    LET q == to_lowercase(name)
        Named(c) == c.channel_name # None
        lower(c) == to_lowercase(c.channel_name.some)
        all == {chanList[i] : i \in 1..Len(chanList)}
    IN  CASE n = 1 -> {c \in all : Named(c) /\ lower(c) = q}
          [] n = 2 -> {c \in all : Named(c) /\ starts_with(lower(c), q)}
          [] n = 3 -> {c \in all : Named(c) /\ contains(lower(c), q)}
          [] n = 4 -> {c \in all : contains(to_lowercase(c.channel_id), q)}

\* C10 (as stated): the call returns a channel of the first tier (display
\* name equals, starts with, contains the query; raw channel identifier
\* contains the query) that has a match, and nothing if no tier has one.
C10_TierCascade ==
    findOut # Unset =>
        LET HitIn(n) == findOut.ret \in {Some(c.channel_id) : c \in Tier(n, findOut.name)}
            Empty(n) == Tier(n, findOut.name) = {}
        IN  IF ~Empty(1) THEN HitIn(1)
            ELSE IF ~Empty(2) THEN HitIn(2)
            ELSE IF ~Empty(3) THEN HitIn(3)
            ELSE IF ~Empty(4) THEN HitIn(4)
            ELSE findOut.ret = None

\* C11 (as stated): matching ignores letter case in the fourth tier too: if
\* no display name matches in tiers 1-3 and some raw channel identifier
\* contains the query up to letter case, the call returns such a channel,
\* never nothing.
C11_TierFourIgnoresCase ==
    (/\ findOut # Unset
     /\ \A n \in 1..3 : Tier(n, findOut.name) = {}
     /\ Tier(4, findOut.name) # {}) =>
        /\ findOut.ret # None
        /\ \E c \in Tier(4, findOut.name) : findOut.ret = Some(c.channel_id)

\* the stored message m has metadata that carries the display name key
CarriesName(m) ==
    /\ m.metadata # None
    /\ \E p \in m.metadata.some.json : p[1] = ChannelNameKey

\* the display names of the most recent messages of channel cid in the
\* table S whose metadata carries the key; None if no message carries it
LatestCarriedNames(S, cid) ==
    LET carriers == {m \in S : m.channel_id = cid /\ CarriesName(m)}
        latest == {m \in carriers : \A x \in carriers : x.created_at <= m.created_at}
    IN  IF carriers = {} THEN {None}
        ELSE {Some(p[2].str) : p \in UNION {{q \in m.metadata.some.json :
                                                q[1] = ChannelNameKey} : m \in latest}}

\* C12 (as stated): the display name resolve_channel_name returns, and the
\* one list_channels reports for each channel when no write commits during
\* the call, is the discord_channel_name of the most recent message whose
\* metadata carries that key; later messages without the key (user messages
\* with an empty metadata map, bot messages) do not make it disappear.
C12_NameOfLatestCarrier ==
    /\ (resp # Unset /\ resp.op = "resolve_channel_name" /\ ~resp.storeFailed) =>
          resp.ret \in LatestCarriedNames(messages, resp.channel_id)
    /\ (/\ resp # Unset /\ resp.op = "list_channels" /\ ~resp.storeFailed
        /\ resp.scanned = Cardinality(messages)) =>
          \A i \in 1..Len(resp.ret.val) :
              resp.ret.val[i].channel_name
                  \in LatestCarriedNames(messages, resp.ret.val[i].channel_id)

\* list_channels returned a list, and the store holds the message rows it
\* held when the call's aggregate SELECT ran: no write committed during
\* the call
ListedUndisturbed ==
    /\ resp # Unset /\ resp.op = "list_channels" /\ resp.ret.ok
    /\ resp.scanned = Cardinality(messages)

\* C13: when no write commits during the call, list_channels returns
\* exactly one ChannelInfo per channel that has at least one message, with
\* message_count the number of the channel's messages and last_activity
\* the greatest created_at among them, ordered by last_activity descending.
C13_ListChannelsAggregates ==
    ListedUndisturbed =>
        LET out == resp.ret.val
            Of(c) == {m \in messages : m.channel_id = c}
        IN  /\ {out[i].channel_id : i \in 1..Len(out)} = {m.channel_id : m \in messages}
            /\ \A i, j \in 1..Len(out) : i # j => out[i].channel_id # out[j].channel_id
            /\ \A i \in 1..Len(out) :
                  /\ out[i].message_count = Cardinality(Of(out[i].channel_id))
                  /\ \E m \in Of(out[i].channel_id) : m.created_at = out[i].last_activity
                  /\ \A m \in Of(out[i].channel_id) : m.created_at <= out[i].last_activity
            /\ \A i, j \in 1..Len(out) :
                  i < j => out[i].last_activity >= out[j].last_activity

\* two channels listed, the more recently active one first
C13_Witness ==
    /\ ListedUndisturbed
    /\ Len(resp.ret.val) = 2
    /\ resp.ret.val[1].last_activity > resp.ret.val[2].last_activity

\* an edge as the handlers' JSON spells it, and as topology spells it
EdgeStrings(l) ==
    [direction |-> IF l.direction = "OneWay" THEN "one_way" ELSE "two_way",
     relationship |-> IF l.relationship = "Peer" THEN "peer"
                      ELSE IF l.relationship = "Superior" THEN "superior"
                      ELSE "subordinate"]

\* the edge list `listed` restates the edges of s, all of them, in order
RestatesSnapshot(listed, s, from, to) ==
    /\ Len(listed) = Len(s)
    /\ \A i \in 1..Len(s) :
          /\ listed[i][from] = s[i].from_agent_id
          /\ listed[i][to] = s[i].to_agent_id
          /\ listed[i].direction = EdgeStrings(s[i]).direction
          /\ listed[i].relationship = EdgeStrings(s[i]).relationship

\* the indices of the edges of s that touch agent_id, in order
RECURSIVE TouchingIndices(_, _, _)
TouchingIndices(s, agent_id, i) ==
    IF i > Len(s) THEN <<>>
    ELSE IF agent_id \in {s[i].from_agent_id, s[i].to_agent_id}
    THEN <<i>> \o TouchingIndices(s, agent_id, i + 1)
    ELSE TouchingIndices(s, agent_id, i + 1)

\* C14: whatever reloads run between the steps of a handler, the edge list
\* one call of list_links, agent_links or topology returns restates exactly
\* one complete snapshot that was installed (for agent_links, all of its
\* edges that touch the agent): never edges of two snapshots, never a part
\* of one; the snapshot a handler holds stays the installed one it loaded.
C14_OneCompleteSnapshot ==
    /\ agent_links \in installed
    /\ (reader # Unset /\ "links" \in DOMAIN reader) => reader.links \in installed
    /\ apiResp # Unset =>
          \E s \in installed :
              CASE apiResp.call.op = "list_links" ->
                      RestatesSnapshot(apiResp.ret.links, s,
                                       "from_agent_id", "to_agent_id")
                [] apiResp.call.op = "agent_links" ->
                      LET idx == TouchingIndices(s, apiResp.call.agent_id, 1)
                      IN  RestatesSnapshot(apiResp.ret.links,
                                           [i \in 1..Len(idx) |-> s[idx[i]]],
                                           "from_agent_id", "to_agent_id")
                [] apiResp.call.op = "topology" ->
                      RestatesSnapshot(apiResp.ret.links, s, "from", "to")

\* list_links returns the two edges of the snapshot it loaded although a
\* reload has installed another snapshot since
C14_Witness ==
    /\ apiResp # Unset /\ apiResp.call.op = "list_links"
    /\ Len(apiResp.ret.links) = 2
    /\ Len(agent_links) = 1
    /\ Cardinality(installed) >= 2

\* topology was served from the configuration of agents a, b, c with the
\* edges a->b (two_way, peer) and b->c (one_way, b the superior of c)
ServedExample ==
    /\ apiResp # Unset /\ apiResp.call.op = "topology"
    /\ apiResp.agent_configs = ExampleAgents
    /\ apiResp.agent_links = <<AgentLink(<<"a">>, <<"b">>, "TwoWay", "Peer"),
                               AgentLink(<<"b">>, <<"c">>, "OneWay", "Superior")>>

\* what topology reports of the example, the second relationship spelled r
ReportsExample(r) ==
    /\ Len(apiResp.ret.agents) = 3
    /\ Len(apiResp.ret.links) = 2
    /\ apiResp.ret.links[1].direction = "two_way"
    /\ apiResp.ret.links[2].direction = "one_way"
    /\ apiResp.ret.links[1].relationship = "peer"
    /\ apiResp.ret.links[2].relationship = r

AllRows == messages \cup summaries \cup archives

\* C15: the conversation log is append-only: whatever write call, spawned
\* INSERT or read runs, every message row (and summary and archive row)
\* that was persisted is still there with the same fields, one step adds
\* at most one row, and no write call ever has more than one row.
C15_AppendOnly ==
    [][/\ messages \subseteq messages'
       /\ summaries \subseteq summaries'
       /\ archives \subseteq archives'
       /\ Cardinality(AllRows') <= Cardinality(AllRows) + 1
       /\ \A r, q \in AllRows' : r.id = q.id => r = q]_vars

\* two messages of one channel persisted at different times, and a read
\* has just returned
C15_Witness ==
    /\ resp # Unset
    /\ \E m, n \in messages :
          m.channel_id = n.channel_id /\ m.created_at < n.created_at

\* the message row m has the fields of the write call c
RowMatchesCall(m, c) ==
    /\ m.channel_id = c.channel_id
    /\ m.content = c.content
    /\ IF c.op = "log_user_message"
       THEN /\ m.role = "user"
            /\ m.sender_name = Some(c.sender_name)
            /\ m.sender_id = Some(c.sender_id)
            /\ m.metadata = Some([json |-> c.metadata])
       ELSE /\ m.role = "assistant"
            /\ m.sender_name = None /\ m.sender_id = None /\ m.metadata = None

\* load_recent of a channel, with a limit that covers the channel, lists
\* the message of write call id, and lists it once
VisibleOnce(id) ==
    \E cid \in StoreChannels :
        \A rows \in SelectRecentMessages(cid, -1) :
            LET out == load_recent_collect(rows)
            IN  Cardinality({i \in 1..Len(out) : out[i].id = id}) = 1

\* C17: a message write returns to its caller before its INSERT has
\* executed: while its task is spawned the message is in no table.  If the
\* process keeps running and the store accepts the INSERT (no warning for
\* the call), the message of every call made becomes visible to load_recent
\* as exactly one row, and the row its task persists has the call's
\* channel, content and role ('user' with the sender name, sender id and
\* metadata given, 'assistant' with no sender and no metadata).  Once the
\* process has terminated no message is persisted any more, so a message
\* whose INSERT had not executed never is.
C17_EventuallyPersisted ==
    /\ [](\A t \in tasks :
            /\ t.row.id <= Len(returned) /\ returned[t.row.id] = Unit
            /\ \A m \in messages : m.id # t.row.id)
    /\ [](\A m, n \in messages : m.id = n.id => m = n)
    /\ [][\A t \in tasks \ tasks' :
            \A m \in messages' \ messages :
                m.id = t.row.id /\ RowMatchesCall(m, t.call)]_vars
    /\ \A id \in 1..MaxCalls :
          (Len(returned) >= id)
              ~> (\/ VisibleOnce(id)
                  \/ \E w \in warnings : w.id = id
                  \/ ~alive)
    /\ [][~alive' => messages' = messages]_vars

\* the first call's message is visible, the second call has returned and
\* its message is not visible yet
C17_Witness ==
    /\ alive
    /\ Len(returned) = 2
    /\ VisibleOnce(1)
    /\ \E t \in tasks : t.row.id = 2
    /\ ~VisibleOnce(2)
    /\ returned[2] = Unit

\* what the name lookup yields when it runs on the message table S: the
\* key's value in a most recent message of channel cid with metadata, None
\* if that message's metadata lacks the key or no message has metadata
LookedUpNames(S, cid) ==
    LET withMeta == {m \in S : m.channel_id = cid /\ m.metadata # None}
        latest == {m \in withMeta : \A x \in withMeta : x.created_at <= m.created_at}
    IN  IF withMeta = {} THEN {None}
        ELSE UNION {IF CarriesName(m) THEN LatestCarriedNames({m}, cid) ELSE {None} :
                       m \in latest}

\* list_channels returned a list and none of its statements failed
Listed == resp # Unset /\ resp.op = "list_channels" /\ ~resp.storeFailed

\* C18: list_channels is not atomic, but each of its statements sees one
\* state of the store: the channels, counts and last activities it returns
\* are those of the table as it was at the aggregate scan, and each
\* channel_name is what the lookup yields on a state of the table at or
\* after the scan, possibly one with messages the scan did not count.
C18_EachStatementConsistent ==
    Listed =>
        LET out == resp.ret.val
        IN  \E S0 \in SUBSET messages :
              /\ Cardinality(S0) = resp.scanned
              /\ {out[i].channel_id : i \in 1..Len(out)} = {m.channel_id : m \in S0}
              /\ \A i \in 1..Len(out) :
                    LET Of == {m \in S0 : m.channel_id = out[i].channel_id}
                    IN  /\ out[i].message_count = Cardinality(Of)
                        /\ \A m \in Of : m.created_at <= out[i].last_activity
                        /\ \E m \in Of : m.created_at = out[i].last_activity
                        /\ \E S \in SUBSET messages :
                              /\ S0 \subseteq S
                              /\ out[i].channel_name
                                    \in LookedUpNames(S, out[i].channel_id)

\* a ChannelInfo that mixes two states: its channel_name can only come from
\* a message that committed after the scan, newer than its last_activity
\* and not counted in its message_count
C18_Witness ==
    /\ Listed
    /\ \E i \in 1..Len(resp.ret.val) :
          LET c == resp.ret.val[i]
              Of == {m \in messages : m.channel_id = c.channel_id}
          IN  /\ c.channel_name # None
              /\ c.message_count = 1
              /\ Cardinality(Of) = 2
              /\ \A m \in Of : CarriesName(m) => m.created_at > c.last_activity

\* load_recent returned a list (write call ids count the calls in the order
\* they were made; each call returns before the next is made)
RecentReturned == resp # Unset /\ resp.op = "load_recent" /\ resp.ret.ok

\* C19 (as stated): of two messages of one channel that load_recent lists,
\* the one whose write call was made first comes first.
C19_CallOrderPreserved ==
    RecentReturned =>
        \A i, j \in 1..Len(resp.ret.val) :
            resp.ret.val[i].id < resp.ret.val[j].id => i < j

\* C19 (amended): the one whose INSERT got the earlier created_at comes
\* first, whichever call was made first; the spawned INSERTs of two calls
\* can execute in either order.
C19_InsertOrderPreserved ==
    RecentReturned =>
        \A i, j \in 1..Len(resp.ret.val) :
            LET first == resp.ret.val[i]
                second == resp.ret.val[j]
            IN  first.id < second.id =>
                  /\ first.created_at < second.created_at => i < j
                  /\ first.created_at > second.created_at => i > j

\* the message of the second call is listed before the message of the
\* first call, whose INSERT executed a tick later
C19_Witness ==
    /\ RecentReturned
    /\ Len(resp.ret.val) = 2
    /\ resp.ret.val[1].id = 2 /\ resp.ret.val[2].id = 1
    /\ resp.ret.val[1].created_at < resp.ret.val[2].created_at

\* C20 (as stated): channel_id is injective on unordered pairs of agents:
\* two edges get the same channel_id only if they join the same two
\* agents, whatever the identifiers (identifiers with ':' included).
C20_ChannelIdInjective ==
    (chanFwd # Unset /\ chanOther # Unset /\ chanFwd = chanOther) =>
        {link.from_agent_id, link.to_agent_id}
            = {otherLink.from_agent_id, otherLink.to_agent_id}

\* topology returned a response
TopologyReturned == apiResp # Unset /\ apiResp.call.op = "topology"

\* the identifiers of the agents a topology response lists
ReportedAgentIds == {apiResp.ret.agents[i].id : i \in 1..Len(apiResp.ret.agents)}

\* the configuration g is valid and every edge of it joins two of its agents
ClosedGeneration(g) ==
    /\ from_config(g.defs).ok
    /\ \A i \in 1..Len(g.defs) :
          {g.defs[i].from, g.defs[i].to} \subseteq {g.agents[j].id : j \in 1..Len(g.agents)}

\* C21 (as stated): whatever reload runs between the steps of topology, the
\* agents and the links of one response come from one configuration, and,
\* every configuration that can be installed being closed, both endpoints
\* of every link of the response are among the response's agents.
C21_SingleGeneration ==
    TopologyReturned =>
        /\ \E g \in Generations :
              /\ from_config(g.defs).ok
              /\ Len(apiResp.ret.agents) = Len(g.agents)
              /\ \A i \in 1..Len(g.agents) : apiResp.ret.agents[i].id = g.agents[i].id
              /\ RestatesSnapshot(apiResp.ret.links, from_config(g.defs).val, "from", "to")
        /\ (\A g \in Generations : from_config(g.defs).ok => ClosedGeneration(g)) =>
              \A i \in 1..Len(apiResp.ret.links) :
                  {apiResp.ret.links[i].from, apiResp.ret.links[i].to}
                      \subseteq ReportedAgentIds

====
